---- MODULE Spec2Model ----
(***************************************************************************)
(* Model of the Monkey lexer of src/token.rs: the Lexer struct, its        *)
(* constructor Lexer::new and its operations next_token, eat_whitespace,   *)
(* read_char, read_identifier and peek_char.  Characters are one-character *)
(* strings, the input Vec<char> is a sequence of them (index i of the Vec  *)
(* is element i + 1 of the sequence), Option<char> is a sequence of length *)
(* zero (None) or one (Some).                                              *)
(***************************************************************************)
EXTENDS Integers, Sequences, FiniteSets, TLC

\* Bounds of the model.
MaxLen == 3
MaxCalls == 6
MaxReads == 1

\* ------------------------------------------------------------------------
\* Characters and their classification (char::is_alphabetic,
\* char::is_whitespace), restricted to the ASCII characters used here.
Alphabetic ==
    {"a", "b", "c", "d", "e", "f", "g", "h", "i", "j", "k", "l", "m",
     "n", "o", "p", "q", "r", "s", "t", "u", "v", "w", "x", "y", "z"}

Whitespace == {" ", "\t", "\n", "\r"}

is_alphabetic(c) == c \in Alphabetic

is_whitespace(c) == c \in Whitespace

\* Option<char>
None == << >>

Some(c) == << c >>

is_none(o) == o = None

unwrap(o) == o[1]

\* ------------------------------------------------------------------------
\* Tokens (enum Token).  lit is the payload of Ident, val the payload of Int.
Tok(t) == [type |-> t, lit |-> << >>, val |-> 0]

Ident(s) == [type |-> "Ident", lit |-> s, val |-> 0]

IntTok(n) == [type |-> "Int", lit |-> << >>, val |-> n]

\* ------------------------------------------------------------------------
\* Inputs: every text of length at most MaxLen over Sigma, and the texts
\* of the scenarios.
Sigma == {"a", " ", "=", "!", ";", "7", "@"}

LetFive == <<"l", "e", "t", " ", "f", "i", "v", "e", " ", "=", " ", "5", ";">>

KeywordTexts ==
    { <<"f", "n">>, <<"l", "e", "t">>, <<"r", "e", "t", "u", "r", "n">>,
      <<"i", "f">>, <<"e", "l", "s", "e">>, <<"t", "r", "u", "e">>,
      <<"f", "a", "l", "s", "e">> }

Scenarios ==
    {LetFive, <<"1", "0", ";">>, <<"x", " ", "+", " ", "y", ";">>,
     <<" ", "\t", "\n", "\r">>, <<"=", "=">>, <<"!", "=">>}
        \cup KeywordTexts
        \cup {k \o <<" ">> : k \in KeywordTexts}
        \cup {<<" ">> \o k \o <<";", " ">> : k \in KeywordTexts}

Texts == UNION {[1..n -> Sigma] : n \in 0..MaxLen} \cup Scenarios

\* A byte source: UTF-8 decodable text, or bytes read_to_string rejects.
Sources ==
    {[utf8 |-> TRUE, text |-> t] : t \in Texts} \cup {[utf8 |-> FALSE, text |-> << >>]}

VARIABLES
    src,        \* the byte source handed to Lexer::new
    err,        \* result of Lexer::new: "Ok", or the LexerError variant
    input,      \* Lexer.input
    pos,        \* Lexer.pos
    read_pos,   \* Lexer.read_pos
    ch,         \* Lexer.ch
    chIdx,      \* index of input that ch was loaded from (-1 when None)
    panic,      \* an index or slice was out of bounds
    diverged,   \* a loop ran longer than any loop over this input can
    toks,       \* the tokens returned by next_token so far, in order
    ats,        \* for each returned token, chIdx when it was classified
    nread       \* number of direct calls of the public read_char

vars == <<src, err, input, pos, read_pos, ch, chIdx, panic, diverged, toks, ats, nread>>

\* The Lexer struct (with the ghost fields chIdx, panic, diverged).
Lexer(i, p, r, c, x) ==
    [input |-> i, pos |-> p, read_pos |-> r, ch |-> c, chIdx |-> x,
     panic |-> FALSE, diverged |-> FALSE]

Self == [input |-> input, pos |-> pos, read_pos |-> read_pos, ch |-> ch,
         chIdx |-> chIdx, panic |-> panic, diverged |-> diverged]

\* ------------------------------------------------------------------------
\* read_char with the end test written == instead of >=
read_char_eq(s) ==
    IF s.panic THEN s
    ELSE IF s.read_pos = Len(s.input)
    THEN [s EXCEPT !.ch = None, !.chIdx = -1,
                   !.pos = s.read_pos, !.read_pos = s.read_pos + 1]
    ELSE IF s.pos >= Len(s.input)
    THEN [s EXCEPT !.panic = TRUE]
    ELSE [s EXCEPT !.ch = Some(s.input[s.pos + 1]), !.chIdx = s.pos,
                   !.pos = s.read_pos, !.read_pos = s.read_pos + 1]

\* read_char without the final read_pos += 1
read_char_noinc(s) ==
    IF s.panic THEN s
    ELSE IF s.read_pos >= Len(s.input)
    THEN [s EXCEPT !.ch = None, !.chIdx = -1, !.pos = s.read_pos]
    ELSE IF s.pos >= Len(s.input)
    THEN [s EXCEPT !.panic = TRUE]
    ELSE [s EXCEPT !.ch = Some(s.input[s.pos + 1]), !.chIdx = s.pos,
                   !.pos = s.read_pos]

\* fn read_char(&mut self)
read_char(s) ==
    IF s.panic THEN s
    ELSE IF s.read_pos >= Len(s.input)
    THEN [s EXCEPT !.ch = None, !.chIdx = -1,
                   !.pos = s.read_pos, !.read_pos = s.read_pos + 1]
    ELSE IF s.pos >= Len(s.input)
    THEN [s EXCEPT !.panic = TRUE]
    ELSE [s EXCEPT !.ch = Some(s.input[s.pos + 1]), !.chIdx = s.pos,
                   !.pos = s.read_pos, !.read_pos = s.read_pos + 1]

\* fn peek_char(&mut self) -> Option<char>
peek_char(s) ==
    IF s.read_pos >= Len(s.input) THEN None ELSE Some(s.input[s.read_pos + 1])

\* Iterations no loop over this input can exceed: every iteration calls
\* read_char, and the loops stop once ch is None.
Fuel(s) == Len(s.input) + 2

\* fn eat_whitespace(&mut self): loop { read_char; break if None or not
\* whitespace }
RECURSIVE eat_whitespace_loop(_, _)
eat_whitespace_loop(s, fuel) ==
    IF fuel = 0 THEN [s EXCEPT !.diverged = TRUE]
    ELSE LET s1 == read_char(s) IN
         IF s1.panic THEN s1
         ELSE IF is_none(s1.ch) THEN s1
         ELSE IF ~is_whitespace(unwrap(s1.ch)) THEN s1
         ELSE eat_whitespace_loop(s1, fuel - 1)

\* eat_whitespace that reads one character and does not loop
eat_whitespace_once(s) == read_char(s)

eat_whitespace(s) == eat_whitespace_loop(s, Fuel(s))

\* while let Some(x) = self.ch { if !x.is_alphabetic() { break; } read_char }
RECURSIVE read_identifier_loop(_, _)
read_identifier_loop(s, fuel) ==
    IF s.panic THEN s
    ELSE IF is_none(s.ch) THEN s
    ELSE IF ~is_alphabetic(unwrap(s.ch)) THEN s
    ELSE IF fuel = 0 THEN [s EXCEPT !.diverged = TRUE]
    ELSE read_identifier_loop(read_char(s), fuel - 1)

\* fn read_identifier(&mut self) -> String
read_identifier(s) ==
    LET start == s.pos
        s1 == read_identifier_loop(read_char(s), Fuel(s))
    IN  IF s1.panic \/ s1.diverged THEN [s |-> s1, ret |-> << >>]
        ELSE IF start > s1.pos \/ s1.pos > Len(s1.input)
        THEN [s |-> [s1 EXCEPT !.panic = TRUE], ret |-> << >>]
        ELSE [s |-> s1, ret |-> SubSeq(s1.input, start + 1, s1.pos)]

\* The arms of next_token's match that return a token for one character.
SingleChar ==
    [c \in {"+", "-", "*", "/", ";", ">", "<", "{", "}", "(", ")"} |->
        CASE c = "+" -> "Plus"
          [] c = "-" -> "Minus"
          [] c = "*" -> "Asterisk"
          [] c = "/" -> "Slash"
          [] c = ";" -> "Semicolon"
          [] c = ">" -> "Gt"
          [] c = "<" -> "Lt"
          [] c = "{" -> "LBrace"
          [] c = "}" -> "RBrace"
          [] c = "(" -> "LParen"
          [] c = ")" -> "RParen"]

\* fn next_token(&mut self) -> Token
next_token(s) ==
    LET s1 == eat_whitespace(s) IN
    IF s1.panic \/ s1.diverged THEN [s |-> s1, ret |-> Tok("Illegal")]
    ELSE IF is_none(s1.ch) THEN [s |-> s1, ret |-> Tok("Eof")]
    ELSE LET c == unwrap(s1.ch) IN
         IF c \in DOMAIN SingleChar THEN [s |-> s1, ret |-> Tok(SingleChar[c])]
         ELSE IF c = "="
         THEN [s |-> s1,
               ret |-> IF peek_char(s1) = Some("=") THEN Tok("Eq") ELSE Tok("Assign")]
         ELSE IF is_alphabetic(c)
         THEN LET r == read_identifier(s1) IN [s |-> r.s, ret |-> Ident(r.ret)]
         ELSE [s |-> s1, ret |-> Tok("Illegal")]

\* fn new(input: BufReader<R>) -> Result<Self, LexerError>
new(source) ==
    IF ~source.utf8
    THEN [err |-> "Invalid", l |-> Lexer(<< >>, 0, 0, None, -1)]
    ELSE [err |-> "Ok", l |-> read_char(Lexer(source.text, 0, 0, None, -1))]

\* ------------------------------------------------------------------------
Init ==
    /\ src \in Sources
    /\ err = new(src).err
    /\ input = new(src).l.input
    /\ pos = new(src).l.pos
    /\ read_pos = new(src).l.read_pos
    /\ ch = new(src).l.ch
    /\ chIdx = new(src).l.chIdx
    /\ panic = new(src).l.panic
    /\ diverged = new(src).l.diverged
    /\ toks = << >>
    /\ ats = << >>
    /\ nread = 0

Store(s) ==
    /\ pos' = s.pos
    /\ read_pos' = s.read_pos
    /\ ch' = s.ch
    /\ chIdx' = s.chIdx
    /\ panic' = s.panic
    /\ diverged' = s.diverged

\* A live lexer: construction succeeded and no call has aborted.
Live == err = "Ok" /\ ~panic /\ ~diverged

\* l.next_token()
NextToken ==
    /\ Live
    /\ Len(toks) < MaxCalls
    /\ LET r == next_token(Self) IN
        /\ Store(r.s)
        /\ IF r.s.panic \/ r.s.diverged
           THEN UNCHANGED <<toks, ats>>
           ELSE /\ toks' = Append(toks, r.ret)
                /\ ats' = Append(ats, IF r.ret.type = "Eof" THEN -1 ELSE eat_whitespace(Self).chIdx)
    /\ UNCHANGED <<src, err, input, nread>>

\* l.read_char(), called directly (the method is pub)
ReadChar ==
    /\ Live
    /\ nread < MaxReads
    /\ Store(read_char(Self))
    /\ nread' = nread + 1
    /\ UNCHANGED <<src, err, input, toks, ats>>

Next == NextToken \/ ReadChar

Spec == Init /\ [][Next]_vars

\* ------------------------------------------------------------------------
\* Reference notions the properties are stated with.
Digits == {"0", "1", "2", "3", "4", "5", "6", "7", "8", "9"}

DigitVal(c) ==
    CASE c = "0" -> 0 [] c = "1" -> 1 [] c = "2" -> 2 [] c = "3" -> 3
      [] c = "4" -> 4 [] c = "5" -> 5 [] c = "6" -> 6 [] c = "7" -> 7
      [] c = "8" -> 8 [] c = "9" -> 9

RECURSIVE Base10(_)
Base10(ds) ==
    IF ds = << >> THEN 0
    ELSE 10 * Base10(SubSeq(ds, 1, Len(ds) - 1)) + DigitVal(ds[Len(ds)])

\* Length of the maximal run of characters of set S starting at index k
\* (0-based) of text t.
RunLen(t, k, S) ==
    CHOOSE n \in 0..(Len(t) - k) :
        /\ \A j \in 1..n : t[k + j] \in S
        /\ k + n = Len(t) \/ t[k + n + 1] \notin S

Run(t, k, S) == SubSeq(t, k + 1, k + RunLen(t, k, S))

\* The token of a maximal alphabetic run.
KeywordOrIdent(run) ==
    CASE run = <<"f", "n">> -> Tok("Function")
      [] run = <<"l", "e", "t">> -> Tok("Let")
      [] run = <<"r", "e", "t", "u", "r", "n">> -> Tok("Return")
      [] run = <<"i", "f">> -> Tok("If")
      [] run = <<"e", "l", "s", "e">> -> Tok("Else")
      [] run = <<"t", "r", "u", "e">> -> Tok("True")
      [] run = <<"f", "a", "l", "s", "e">> -> Tok("False")
      [] OTHER -> Ident(run)

\* Index (0-based) of the first non-whitespace character of t at or after
\* index from, or -1 when there is none.
FirstNonWs(t, from) ==
    LET c == {k \in from..(Len(t) - 1) : t[k + 1] \notin Whitespace} IN
    IF c = {} THEN -1 ELSE CHOOSE k \in c : \A m \in c : k <= m

\* Number of input characters the i-th returned token stands for.
TokLen(i) ==
    CASE toks[i].type = "Ident" -> Len(toks[i].lit)
      [] toks[i].type \in {"Eq", "NotEq"} -> 2
      [] toks[i].type = "Int" -> RunLen(input, ats[i], Digits)
      [] OTHER -> 1

IsEof(t) == t.type = "Eof"

SomeEof == \E i \in DOMAIN toks : IsEof(toks[i])

\* Only next_token has been called since Lexer::new.
OnlyNextToken == err = "Ok" /\ nread = 0

\* ------------------------------------------------------------------------
\* C1: once a next_token call has returned Eof, every later call returns
\* Eof too, and no later call fails.
EofIsStable ==
    /\ \A i, j \in DOMAIN toks : (i < j /\ IsEof(toks[i])) => toks[j] = Tok("Eof")
    /\ SomeEof => (~panic /\ ~diverged)

EofIsStableWitness ==
    /\ Len(toks) >= 3
    /\ ~IsEof(toks[1])
    /\ IsEof(toks[2])
    /\ IsEof(toks[3])

\* C2: on the input "let five = 5;" the first six next_token calls return
\* Let, Ident("five"), Assign, Int(5), Semicolon, Eof, in that order.
LetFiveExpected ==
    <<Tok("Let"), Ident(<<"f", "i", "v", "e">>), Tok("Assign"), IntTok(5),
      Tok("Semicolon"), Tok("Eof")>>

LetFiveTokens ==
    (OnlyNextToken /\ input = LetFive) =>
        \A i \in DOMAIN toks : i <= 6 => toks[i] = LetFiveExpected[i]

\* C3: "=" yields Assign first; "==" yields one Eq then Eof; "!" yields
\* Bang first; "!=" yields one NotEq then Eof.
TwoCharOperators ==
    OnlyNextToken =>
        /\ (input = <<"=">> /\ Len(toks) >= 1) => toks[1] = Tok("Assign")
        /\ (input = <<"=", "=">> /\ Len(toks) >= 1) => toks[1] = Tok("Eq")
        /\ (input = <<"=", "=">> /\ Len(toks) >= 2) => toks[2] = Tok("Eof")
        /\ (input = <<"!">> /\ Len(toks) >= 1) => toks[1] = Tok("Bang")
        /\ (input = <<"!", "=">> /\ Len(toks) >= 1) => toks[1] = Tok("NotEq")
        /\ (input = <<"!", "=">> /\ Len(toks) >= 2) => toks[2] = Tok("Eof")

\* C4: a next_token call that starts at an alphabetic character returns the
\* keyword token when the maximal alphabetic run from that character is a
\* keyword, and otherwise Ident carrying exactly that run.
KeywordIdentPartition ==
    \A i \in DOMAIN toks :
        (ats[i] >= 0 /\ input[ats[i] + 1] \in Alphabetic) =>
            toks[i] = KeywordOrIdent(Run(input, ats[i], Alphabetic))

\* C5: a next_token call that starts at an ASCII digit returns Int of the
\* base-10 value of the maximal digit run from there, and when a non-digit,
\* non-whitespace character follows the run, the next call starts at it.
IntegerScanning ==
    \A i \in DOMAIN toks :
        (ats[i] >= 0 /\ input[ats[i] + 1] \in Digits) =>
            LET n == RunLen(input, ats[i], Digits) IN
            /\ toks[i] = IntTok(Base10(Run(input, ats[i], Digits)))
            /\ ( /\ OnlyNextToken
                 /\ i + 1 \in DOMAIN toks
                 /\ ats[i] + n < Len(input)
                 /\ input[ats[i] + n + 1] \notin Whitespace )
               => ats[i + 1] = ats[i] + n

\* C6: for a whitespace-only or empty input Lexer::new succeeds and the
\* first next_token call returns Eof; for the empty input every call does.
AllWhitespace(t) == \A k \in DOMAIN t : t[k] \in Whitespace

WhitespaceOnlyYieldsEof ==
    (src.utf8 /\ AllWhitespace(src.text)) =>
        /\ err = "Ok"
        /\ ~panic /\ ~diverged
        /\ toks # << >> => toks[1] = Tok("Eof")
        /\ src.text = << >> => \A i \in DOMAIN toks : toks[i] = Tok("Eof")

WhitespaceOnlyWitness ==
    /\ src.utf8
    /\ Len(src.text) >= 2
    /\ AllWhitespace(src.text)
    /\ nread = 0
    /\ toks # << >>
    /\ IsEof(toks[1])

\* C7: after a call that returns a non-Eof token the cursor is one past the
\* last character of the token, and the next call classifies the first
\* non-whitespace character from there (Eof only when there is none); the
\* first call classifies the first non-whitespace character of the input.
CursorDiscipline ==
    OnlyNextToken =>
        /\ (toks # << >> /\ ~IsEof(toks[Len(toks)]))
              => pos = ats[Len(toks)] + TokLen(Len(toks))
        /\ \A i \in DOMAIN toks :
              (i = 1 \/ ~IsEof(toks[i - 1])) =>
                  LET from == IF i = 1 THEN 0 ELSE ats[i - 1] + TokLen(i - 1) IN
                  /\ ats[i] = FirstNonWs(input, from)
                  /\ IsEof(toks[i]) <=> FirstNonWs(input, from) = -1

\* C8: read_pos = pos + 1, and ch is Some(input[pos]) when pos is inside
\* the input and None when pos is at or past its end.
LexerStateInvariant ==
    err = "Ok" =>
        /\ read_pos = pos + 1
        /\ ch = IF pos < Len(input) THEN Some(input[pos + 1]) ELSE None

\* C9: no call aborts on an out-of-bounds index, and once the input is
\* exhausted every character that matches no rule has been reported as
\* exactly one Illegal token.
MatchesNoRule(c) ==
    /\ c \notin Whitespace
    /\ c \notin Alphabetic
    /\ c \notin DOMAIN SingleChar
    /\ c # "="

NeverAborts ==
    /\ ~panic
    /\ (OnlyNextToken /\ SomeEof) =>
          \A k \in 0..(Len(input) - 1) :
              MatchesNoRule(input[k + 1]) =>
                  /\ Cardinality({i \in DOMAIN toks : ats[i] = k}) = 1
                  /\ \A i \in DOMAIN toks : ats[i] = k => toks[i] = Tok("Illegal")

\* C10: every call terminates and advances the cursor by at least one
\* position, and from call number Len(input) + 1 on every call returns Eof.
Termination ==
    [][ /\ pos' > pos
        /\ ~diverged'
        /\ \A i \in DOMAIN toks' : i > Len(input) => IsEof(toks'[i]) ]_vars

TerminationWitness ==
    /\ Len(input) >= 2
    /\ Len(toks) = Len(input) + 1
    /\ ~IsEof(toks[1])
    /\ IsEof(toks[Len(toks)])
====
